---------------------------- MODULE Spec2Model ----------------------------
(***************************************************************************)
(* A model of CCScriptWriter (src/CCScriptWriter.py): the decoder of the   *)
(* EarthBound text bytecode (getText / getLength), the address conversion  *)
(* (FromSNES / ToSNES), block discovery (loadDialogue), relocation         *)
(* (processDialogue / replaceWithLabel) and the writer (outputDialogue).   *)
(*                                                                         *)
(* The ROM is a sequence of bytes; offset i of the program is data[i + 1]. *)
(* A Python string is the sequence of its characters' codes, so a block's  *)
(* text "[02]" is <<91, 48, 50, 93>>, and the regular expressions of       *)
(* PATTERNS are matched character by character.                            *)
(*                                                                         *)
(* Left out of processDialogue: the compressed-text substitution (the      *)
(* buffers of the pipeline hold neither a byte 0x15..0x17 nor the byte     *)
(* 0x8B that prints "[", so the expression of line 243 matches nothing),   *)
(* and the keyword substitutions of REPLACE, which rename rendered codes   *)
(* and neither raise nor touch anything but the block's text.              *)
(***************************************************************************)
EXTENDS Integers, Sequences, FiniteSets, TLC

VARIABLES
    data,        \* self.data: the (de-headered) ROM bytes
    header,      \* self.header: <<>> is None, else <<0>> or <<-0x200>>
    textData,    \* TEXT_DATA, scaled to the model's buffer
    coilsnake,   \* args.coilsnake and the project found: "off", "missing", "ok"
    project,     \* the pointer fields of the CoilSnake project's tables
    dialogue,    \* self.dialogue: block address -> tokens
    nextOffset,  \* the offset getText returned for the block (the "i" the code drops)
    pointers,    \* self.pointers
    roots,       \* loadDialogue's local list "pointers"
    dataFiles,   \* self.dataFiles: block address -> chunk number
    section,     \* index of the section being scanned
    i,           \* loadDialogue's scan offset
    written,     \* the output files created so far
    pc,          \* position in __main__
    error,       \* the exception or exit that ended the run, "" if none
    arg,         \* the argument of a call of one function (SpecAddress, SpecDecode)
    res          \* its result

vars == <<data, header, textData, coilsnake, project, dialogue, nextOffset,
          pointers, roots, dataFiles, section, i, written, pc, error,
          arg, res>>

-----------------------------------------------------------------------------
(* Constants of the program *)

BankBase == \hC00000

None == -1

ControlCodeTable ==
    << 0, 0, 0, 0, 2, 2, 6, 2, 4, None, 4, 1, 1, 1, 1, 0,
       1, 0, 0, 0, 0, 1, 1, 1, None, None, None, None, None, None, None, None,
       0, 0, 0, 0, 0, 0, 0, 0, 0, 0, 0, 0, 0, 0, 0, 0, 0 >>

CONTROL_CODES == [c \in 0 .. \h30 |-> ControlCodeTable[c + 1]]

ChunkSize == 100

-----------------------------------------------------------------------------
(* Sequences and maps *)

Range(s) == {s[k] : k \in DOMAIN s}

\* the place of x in sorted(S), counted from 0
Rank(S, x) == Cardinality({y \in S : y < x})

sorted(S) == [k \in 1 .. Cardinality(S) |-> CHOOSE x \in S : Rank(S, x) = k - 1]

Put(f, k, v) == [x \in DOMAIN f \cup {k} |-> IF x = k THEN v ELSE f[x]]

EmptyMap == [x \in {} |-> 0]

-----------------------------------------------------------------------------
(* Reading the buffer: a Python array index.  A negative index counts from *)
(* the end; an index outside -len .. len-1 raises IndexError.              *)

InBuffer(d, k) == -Len(d) <= k /\ k < Len(d)

Read(d, k) == IF k >= 0 THEN d[k + 1] ELSE d[Len(d) + k + 1]

-----------------------------------------------------------------------------
(* Results of a call that may raise *)

Ok(v) == [err |-> "", v |-> v]

Raise(e) == [err |-> e, v |-> 0]

-----------------------------------------------------------------------------
(* Strings *)

RECURSIVE Concat(_)
Concat(ss) == IF ss = <<>> THEN <<>> ELSE Head(ss) \o Concat(Tail(ss))

Reverse(s) == [k \in 1 .. Len(s) |-> s[Len(s) + 1 - k]]

\* hex(n) without its "0x", n >= 0: the hexadecimal digits, "" for 0 as after lstrip("0x")
RECURSIVE HexDigits(_)
HexDigits(n) == IF n = 0 THEN <<>> ELSE Append(HexDigits(n \div 16), n % 16)

\* the character of a digit: "0".."9", then "A".."F" or "a".."f"
UpperHex(dg) == IF dg < 10 THEN 48 + dg ELSE 55 + dg

LowerHex(dg) == IF dg < 10 THEN 48 + dg ELSE 87 + dg

UpperHexString(n) == [k \in DOMAIN HexDigits(n) |-> UpperHex(HexDigits(n)[k])]

\* the value of a hexadecimal digit character, -1 for any other character
HexValue(ch) ==
    IF ch \in 48 .. 57 THEN ch - 48
    ELSE IF ch \in 65 .. 70 THEN ch - 55
    ELSE IF ch \in 97 .. 102 THEN ch - 87
    ELSE -1

\* s.split(): the runs of s between spaces, in order
split(s) ==
    LET starts == {k \in DOMAIN s : s[k] # 32 /\ (k = 1 \/ s[k - 1] = 32)}
        start(n) == CHOOSE k \in starts : Cardinality({j \in starts : j < k}) = n - 1
        stop(k) == CHOOSE e \in k .. Len(s) :
                       /\ \A j \in k .. e : s[j] # 32
                       /\ e = Len(s) \/ s[e + 1] = 32
    IN  [n \in 1 .. Cardinality(starts) |-> SubSeq(s, start(n), stop(start(n)))]

\* " ".join(words)
RECURSIVE Join(_)
Join(words) ==
    IF words = <<>> THEN <<>>
    ELSE IF Len(words) = 1 THEN words[1]
    ELSE words[1] \o <<32>> \o Join(Tail(words))

\* int(s, 16): digits of either case, after an optional "0x" or "0X";
\* ValueError for anything else
RECURSIVE HexNumber(_)
HexNumber(s) == IF s = <<>> THEN 0 ELSE HexNumber(SubSeq(s, 1, Len(s) - 1)) * 16 + HexValue(s[Len(s)])

IntBase16(s) ==
    LET body == IF Len(s) >= 2 /\ s[1] = 48 /\ s[2] \in {88, 120}
                THEN SubSeq(s, 3, Len(s)) ELSE s
    IN  IF body = <<>> \/ \E k \in DOMAIN body : HexValue(body[k]) < 0
        THEN Raise("ValueError")
        ELSE Ok(HexNumber(body))

-----------------------------------------------------------------------------
(* FormatHex, FromSNES, ToSNES *)

FormatHex(intNum) ==
    LET hexNum == UpperHexString(intNum)
    IN  IF hexNum = <<>> THEN <<48, 48>>
        ELSE IF Len(hexNum) = 1 THEN <<48>> \o hexNum
        ELSE hexNum

\* snesNum.count("0")
Count0(snesNum) == Cardinality({k \in DOMAIN snesNum : snesNum[k] = 48})

FromSNES(snesNum) ==
    IF Count0(snesNum) = 8
    THEN Ok(0)
    ELSE LET n == IntBase16(Concat(Reverse(split(snesNum))))
         IN  IF n.err # "" THEN n ELSE Ok(n.v - BankBase)

\* "{0:0>8}".format(h)
PadLeft8(h) == IF Len(h) >= 8 THEN h ELSE [k \in 1 .. 8 - Len(h) |-> 48] \o h

\* re.findall("\w\w", h) of a string of digits: the pairs from the left, a last odd digit dropped
FindPairs(h) == [k \in 1 .. Len(h) \div 2 |-> <<h[2 * k - 1], h[2 * k]>>]

\* a variant of ToSNES that keeps the order of the bytes
ToSNESForward(hexNum) ==
    IF hexNum = 0
    THEN <<48, 48, 32, 48, 48, 32, 48, 48, 32, 48, 48>>
    ELSE Join(FindPairs(PadLeft8(UpperHexString(hexNum + BankBase))))

\* for hexNum + 0xC00000 >= 0, which is all the program passes
ToSNES(hexNum) ==
    IF hexNum = 0
    THEN <<48, 48, 32, 48, 48, 32, 48, 48, 32, 48, 48>>
    ELSE Join(Reverse(FindPairs(PadLeft8(UpperHexString(hexNum + BankBase)))))

-----------------------------------------------------------------------------
(* getLength: the tables of the codes whose length depends on the next byte *)

Combos1F ==
    << <<\h00, 3>>, <<\h01, 2>>, <<\h02, 2>>, <<\h03, 1>>, <<\h04, 2>>, <<\h05, 1>>,
       <<\h06, 1>>, <<\h07, 2>>, <<\h11, 2>>, <<\h12, 2>>, <<\h13, 3>>, <<\h14, 2>>,
       <<\h15, 6>>, <<\h16, 4>>, <<\h17, 6>>, <<\h18, 8>>, <<\h19, 8>>, <<\h1A, 4>>,
       <<\h1B, 3>>, <<\h1C, 3>>, <<\h1D, 2>>, <<\h1E, 4>>, <<\h1F, 4>>, <<\h20, 3>>,
       <<\h21, 2>>, <<\h23, 3>>, <<\h30, 1>>, <<\h31, 1>>, <<\h41, 2>>, <<\h50, 1>>,
       <<\h51, 1>>, <<\h52, 2>>, <<\h60, 2>>, <<\h61, 1>>, <<\h62, 2>>, <<\h63, 5>>,
       <<\h64, 1>>, <<\h65, 1>>, <<\h66, 7>>, <<\h67, 2>>, <<\h68, 1>>, <<\h69, 1>>,
       <<\h71, 3>>, <<\h81, 3>>, <<\h83, 3>>, <<\h90, 1>>, <<\hA0, 1>>, <<\hA1, 1>>,
       <<\hA2, 1>>, <<\hB0, 1>>, <<\hC0, None>>, <<\hD0, 2>>, <<\hD1, 1>>, <<\hD2, 2>>,
       <<\hD3, 2>>, <<\hE1, 4>>, <<\hE4, 4>>, <<\hE5, 2>>, <<\hE6, 3>>, <<\hE7, 3>>,
       <<\hE8, 2>>, <<\hE9, 3>>, <<\hEA, 3>>, <<\hEB, 3>>, <<\hEC, 3>>, <<\hED, 1>>,
       <<\hEE, 3>>, <<\hEF, 3>>, <<\hF0, 1>>, <<\hF1, 5>>, <<\hF2, 5>>, <<\hF3, 4>>,
       <<\hF4, 3>> >>

Combos18 ==
    << <<\h00, 1>>, <<\h01, 2>>, <<\h02, 1>>, <<\h03, 2>>, <<\h04, 1>>, <<\h05, 3>>,
       <<\h06, 1>>, <<\h07, 6>>, <<\h08, 4>>, <<\h09, 4>>, <<\h0A, 1>>, <<\h0D, 3>> >>

Combos19 ==
    << <<\h02, 1>>, <<\h04, 1>>, <<\h05, 4>>, <<\h10, 2>>, <<\h11, 2>>, <<\h14, 1>>,
       <<\h16, 3>>, <<\h18, 2>>, <<\h19, 3>>, <<\h1A, 2>>, <<\h1B, 2>>, <<\h1C, 3>>,
       <<\h1D, 3>>, <<\h1E, 1>>, <<\h1F, 1>>, <<\h20, 1>>, <<\h21, 2>>, <<\h22, 5>>,
       <<\h23, 6>>, <<\h24, 6>>, <<\h25, 2>>, <<\h26, 2>>, <<\h27, 2>>, <<\h28, 2>> >>

Combos1A ==
    << <<\h00, 18>>, <<\h01, 18>>, <<\h04, 1>>, <<\h05, 3>>, <<\h06, 2>>, <<\h07, 1>>,
       <<\h08, 1>>, <<\h09, 1>>, <<\h0A, 1>>, <<\h0B, 1>> >>

Combos1C ==
    << <<\h00, 2>>, <<\h01, 2>>, <<\h02, 2>>, <<\h03, 2>>, <<\h04, 1>>, <<\h05, 2>>,
       <<\h06, 2>>, <<\h07, 2>>, <<\h08, 2>>, <<\h09, 1>>, <<\h0A, 5>>, <<\h0B, 5>>,
       <<\h0C, 2>>, <<\h0D, 1>>, <<\h0E, 1>>, <<\h0F, 1>>, <<\h11, 2>>, <<\h12, 2>>,
       <<\h13, 3>>, <<\h14, 2>>, <<\h15, 2>> >>

Combos1D ==
    << <<\h00, 3>>, <<\h01, 3>>, <<\h02, 2>>, <<\h03, 2>>, <<\h04, 3>>, <<\h05, 3>>,
       <<\h06, 5>>, <<\h07, 5>>, <<\h08, 3>>, <<\h09, 3>>, <<\h0A, 2>>, <<\h0B, 2>>,
       <<\h0C, 3>>, <<\h0D, 4>>, <<\h0E, 3>>, <<\h0F, 3>>, <<\h10, 3>>, <<\h11, 3>>,
       <<\h12, 3>>, <<\h13, 3>>, <<\h14, 5>>, <<\h15, 3>>, <<\h17, 5>>, <<\h18, 2>>,
       <<\h19, 2>>, <<\h20, 1>>, <<\h21, 2>>, <<\h22, 1>>, <<\h23, 2>>, <<\h24, 2>> >>

\* a variant of the lookup that gives a missing key the length 1
LookupDefault(combos, key) ==
    IF \E n \in DOMAIN combos : combos[n][1] = key
    THEN Ok(combos[CHOOSE n \in DOMAIN combos : combos[n][1] = key][2])
    ELSE Ok(1)

\* combos[key]: a dictionary lookup, KeyError when the key is missing
Lookup(combos, key) ==
    IF \E n \in DOMAIN combos : combos[n][1] = key
    THEN Ok(combos[CHOOSE n \in DOMAIN combos : combos[n][1] = key][2])
    ELSE Raise("KeyError")

\* self.data[k], IndexError outside the buffer
Byte(d, k) == IF InBuffer(d, k) THEN Ok(Read(d, k)) ELSE Raise("IndexError")

\* getLength(i): i is the offset after the code byte
getLength(d, k) ==
    LET c   == Read(d, k - 1)
        sub == Byte(d, k)
    IN  IF sub.err # "" THEN sub
        ELSE IF c = \h09 THEN Ok(1 + sub.v * 4)
        ELSE IF c = \h1B THEN (IF sub.v = \h02 \/ sub.v = \h03 THEN Ok(5) ELSE Ok(1))
        ELSE IF c = \h1E THEN (IF sub.v = \h09 THEN Ok(5) ELSE Ok(3))
        ELSE IF c = \h1F
             THEN IF sub.v # \hC0
                  THEN Lookup(Combos1F, sub.v)
                  ELSE LET numPointers == Byte(d, k + 1)
                       IN  IF numPointers.err # "" THEN numPointers
                           ELSE Ok(2 + numPointers.v * 4)
        ELSE IF c = \h18 THEN Lookup(Combos18, sub.v)
        ELSE IF c = \h19 THEN Lookup(Combos19, sub.v)
        ELSE IF c = \h1A THEN Lookup(Combos1A, sub.v)
        ELSE IF c = \h1C THEN Lookup(Combos1C, sub.v)
        ELSE IF c = \h1D THEN Lookup(Combos1D, sub.v)
        ELSE Raise("UnboundLocalError")

-----------------------------------------------------------------------------
(* PATTERNS.  Every expression is "\[", a first group, the pointer group,  *)
(* for 1A a trailing group, and "]".  An element of pre is the set of      *)
(* characters allowed at that place of the first group; multi tells the    *)
(* repeated pointer group "(( \w\w \w\w \w\w \w\w)+)" from the single      *)
(* "(\w\w \w\w \w\w \w\w)"; trail is the group "( \w\w)".                  *)

\* \w
W == (48 .. 57) \cup (65 .. 90) \cup (97 .. 122) \cup {95}

SP == {32}

Lit(s) == [k \in DOMAIN s |-> {s[k]}]

PATTERNS ==
    << \* \[(06 \w\w \w\w )(\w\w \w\w \w\w \w\w)]
       [pre |-> Lit(<<48, 54, 32>>) \o <<W, W, SP, W, W, SP>>, multi |-> FALSE, trail |-> FALSE],
       \* \[(08 )(\w\w \w\w \w\w \w\w)]
       [pre |-> Lit(<<48, 56, 32>>), multi |-> FALSE, trail |-> FALSE],
       \* \[(09 \w\w)(( \w\w \w\w \w\w \w\w)+)\]
       [pre |-> Lit(<<48, 57, 32>>) \o <<W, W>>, multi |-> TRUE, trail |-> FALSE],
       \* \[(0A )(\w\w \w\w \w\w \w\w)\]
       [pre |-> Lit(<<48, 65, 32>>), multi |-> FALSE, trail |-> FALSE],
       \* \[(1A 0[0|1])(( \w\w \w\w \w\w \w\w)+)( \w\w)\]
       [pre |-> Lit(<<49, 65, 32, 48>>) \o <<{48, 124, 49}>>, multi |-> TRUE, trail |-> TRUE],
       \* \[(1B 0[2|3] )(\w\w \w\w \w\w \w\w)\]
       [pre |-> Lit(<<49, 66, 32, 48>>) \o <<{50, 124, 51}, SP>>, multi |-> FALSE, trail |-> FALSE],
       \* \[(1F 63 )(\w\w \w\w \w\w \w\w)\]
       [pre |-> Lit(<<49, 70, 32, 54, 51, 32>>), multi |-> FALSE, trail |-> FALSE],
       \* \[(1F C0 \w\w)(( \w\w \w\w \w\w \w\w)+)\]
       [pre |-> Lit(<<49, 70, 32, 67, 48, 32>>) \o <<W, W>>, multi |-> TRUE, trail |-> FALSE] >>

\* \w\w \w\w \w\w \w\w and its repeated form, with the space in front
Pointer4 == <<W, W, SP, W, W, SP, W, W, SP, W, W>>

Group4 == <<SP>> \o Pointer4

Trail == <<SP, W, W>>

\* the characters of s from place n on fit the sets of atoms
Fits(s, n, atoms) ==
    /\ n + Len(atoms) - 1 <= Len(s)
    /\ \A k \in DOMAIN atoms : s[n + k - 1] \in atoms[k]

\* how many times Group4 fits in a row from place n
RECURSIVE Repeats(_, _)
Repeats(s, n) == IF Fits(s, n, Group4) THEN 1 + Repeats(s, n + Len(Group4)) ELSE 0

\* what follows the pointer group: the trailing group if any, and "]"
Closing(p) == (IF p.trail THEN Trail ELSE <<>>) \o <<{93}>>

\* The match of p that starts at place n of s, if there is one: ok, the
\* groups g1 (prefix), g2 (pointers), g4 (trailing), its place and the place after it.
\* The repetition is greedy: the most groups that let the rest match.
MatchAt(p, s, n) ==
    LET a    == n + 1
        b    == a + Len(p.pre)
        head == s[n] = 91 /\ Fits(s, a, p.pre)
        most == IF head /\ p.multi THEN Repeats(s, b) ELSE 0
        good == {g \in 1 .. most : Fits(s, b + g * Len(Group4), Closing(p))}
        c    == IF p.multi
                THEN b + (IF good = {} THEN 0 ELSE (CHOOSE g \in good : \A h \in good : h <= g))
                         * Len(Group4)
                ELSE b + Len(Pointer4)
        ok   == /\ head
                /\ IF p.multi THEN good # {}
                   ELSE Fits(s, b, Pointer4) /\ Fits(s, c, Closing(p))
    IN  [ok |-> ok, start |-> n,
         g1 |-> IF ok THEN SubSeq(s, a, b - 1) ELSE <<>>,
         g2 |-> IF ok THEN SubSeq(s, b, c - 1) ELSE <<>>,
         g4 |-> IF ok /\ p.trail THEN SubSeq(s, c, c + Len(Trail) - 1) ELSE <<>>,
         end |-> IF ok THEN c + Len(Closing(p)) ELSE n]

\* the first "[" of s at or after place n, 0 if none: a match starts nowhere else
NextOpen(s, n) ==
    LET opens == {k \in n .. Len(s) : s[k] = 91}
    IN  IF opens = {} THEN 0 ELSE CHOOSE k \in opens : \A j \in opens : k <= j

\* the matches re.findall and re.sub see: leftmost first, not overlapping
RECURSIVE Matches(_, _, _)
RECURSIVE MatchesFrom(_, _, _)
RECURSIVE MatchesAfter(_, _, _)
MatchesAfter(p, s, m) ==
    IF m.ok THEN <<m>> \o Matches(p, s, m.end) ELSE Matches(p, s, m.start + 1)

MatchesFrom(p, s, o) == IF o = 0 THEN <<>> ELSE MatchesAfter(p, s, MatchAt(p, s, o))

Matches(p, s, n) == MatchesFrom(p, s, NextOpen(s, n))

\* the addresses of the pointer group of a match: one, or one per four
\* groups of two digits (lines 379-388 and 484-488); ValueError from FromSNES
PointerTexts(p, m) ==
    IF ~p.multi
    THEN <<m.g2>>
    ELSE LET w == split(m.g2)
         IN  [n \in 1 .. (Len(w) + 3) \div 4 |->
                 Join(SubSeq(w, 4 * n - 3, IF 4 * n <= Len(w) THEN 4 * n ELSE Len(w)))]

\* a variant of EachFromSNES that stops after the first pointer
EachFromSNESFirst(texts) == <<FromSNES(texts[1])>>

EachFromSNES(texts) == [n \in DOMAIN texts |-> FromSNES(texts[n])]

Addresses(p, m) == EachFromSNES(PointerTexts(p, m))

\* the first error among results, "" if none
FirstError(rs) ==
    IF \A n \in DOMAIN rs : rs[n].err = "" THEN ""
    ELSE rs[CHOOSE n \in DOMAIN rs : rs[n].err # "" /\ \A j \in 1 .. n - 1 : rs[j].err = ""].err

Values(rs) == [n \in DOMAIN rs |-> rs[n].v]

\* lines 376-388: every pointer of every match of every pattern, in that order
AddressesOf(p, ms) == Concat([j \in DOMAIN ms |-> Addresses(p, ms[j])])

FindAll(p, block) == AddressesOf(p, Matches(p, block, 1))

\* the addresses found, or the first exception of FromSNES
Collected(found) ==
    IF FirstError(found) # "" THEN Raise(FirstError(found)) ELSE Ok(Values(found))

PointersIn(block) ==
    Collected(Concat([n \in DOMAIN PATTERNS |-> FindAll(PATTERNS[n], block)]))

-----------------------------------------------------------------------------
(* getText *)

\* "stop=None"; the test "if stop and stop == i" takes 0 for None as well
NoStop == 0

\* " XX" for each of the l bytes from offset k (lines 353-355)
Operands(d, k, l) ==
    [n \in 1 .. 3 * l |->
        IF n % 3 = 1 THEN 32 ELSE FormatHex(Read(d, k + (n - 1) \div 3))[IF n % 3 = 2 THEN 1 ELSE 2]]

OperandsInBuffer(d, k, l) == \A n \in 1 .. l : InBuffer(d, k + n - 1)

\* a variant of ControlCode that leaves the code byte out of the offset
ControlCodeShort(d, k, c, length) ==
    IF length.err # ""
    THEN [err |-> length.err, text |-> <<>>, i |-> k + 1, last |-> TRUE]
    ELSE IF ~OperandsInBuffer(d, k + 1, length.v)
    THEN [err |-> "IndexError", text |-> <<>>, i |-> k + 1, last |-> TRUE]
    ELSE [err |-> "",
          text |-> <<91>> \o FormatHex(c) \o Operands(d, k + 1, length.v) \o <<93>>,
          i |-> k + length.v,
          last |-> c = \h02 \/ c = \h0A]

\* lines 343-370: the text of a control code c at offset k whose operands
\* have the given length, the offset after it, and whether it ends the block
ControlCode(d, k, c, length) ==
    IF length.err # ""
    THEN [err |-> length.err, text |-> <<>>, i |-> k + 1, last |-> TRUE]
    ELSE IF ~OperandsInBuffer(d, k + 1, length.v)
    THEN [err |-> "IndexError", text |-> <<>>, i |-> k + 1, last |-> TRUE]
    ELSE [err |-> "",
          text |-> <<91>> \o FormatHex(c) \o Operands(d, k + 1, length.v) \o <<93>>,
          i |-> k + 1 + length.v,
          last |-> c = \h02 \/ c = \h0A]

\* lines 339-342 and 371-373: a byte c above 0x30 is a character, written
\* as text but for 0x52 and 0x8C
Character(k, c) ==
    [err |-> "",
     text |-> IF c = \h52 THEN <<91, 53, 50, 93>>
              ELSE IF c = \h8C THEN <<91, 56, 67, 93>>
              ELSE <<c - \h30>>,
     i |-> k + 1,
     last |-> FALSE]

\* the byte c read at offset k (lines 339-373)
Decoded(d, k, c) ==
    IF c > \h30 THEN Character(k, c)
    ELSE ControlCode(d, k, c, IF CONTROL_CODES[c] # None THEN Ok(CONTROL_CODES[c])
                              ELSE getLength(d, k + 1))

\* one turn of the loop of lines 337-373 after the stop test
DecodeOne(d, k) ==
    IF ~InBuffer(d, k)
    THEN [err |-> "IndexError", text |-> <<>>, i |-> k, last |-> TRUE]
    ELSE Decoded(d, k, Read(d, k))

\* lines 375-390 for the pointers f found in the block
Found(block, k, f) ==
    [err |-> f.err, block |-> block, i |-> k, pointers |-> IF f.err = "" THEN f.v ELSE <<>>]

\* the end of getText: an exception of the loop ends the call, or else the
\* pointers of the block are looked for, where FromSNES may raise
Finish(err, block, k) ==
    IF err # ""
    THEN [err |-> err, block |-> block, i |-> k, pointers |-> <<>>]
    ELSE Found(block, k, PointersIn(block))

\* a variant of the stop test that never stops
NeverStops(stop, k) == FALSE

\* line 338, "if stop and stop == i": no stop is asked for with None or 0
Stops(stop, k) == stop # NoStop /\ stop = k

\* the loop of lines 337-373, from offset k with the text so far in block
RECURSIVE DecodeLoop(_, _, _, _)
RECURSIVE Turn(_, _, _, _)
Turn(d, stop, block, t) ==
    IF t.err # "" \/ t.last
    THEN Finish(t.err, block \o t.text, t.i)
    ELSE DecodeLoop(d, t.i, stop, block \o t.text)

DecodeLoop(d, k, stop, block) ==
    IF Stops(stop, k)
    THEN Finish("", block, k)
    ELSE Turn(d, stop, block, DecodeOne(d, k))

\* getText(i, stop): the block, the offset after it, and the pointers appended
\* to self.pointers
getText(d, k, stop) == DecodeLoop(d, k, stop, <<>>)

\* the offsets at which the loop of getText reads a byte when it starts at k
RECURSIVE Boundaries(_, _)
RECURSIVE BoundariesAfter(_, _, _)
BoundariesAfter(d, k, t) ==
    IF t.err # "" \/ t.last THEN {k} ELSE {k} \cup Boundaries(d, t.i)

Boundaries(d, k) == BoundariesAfter(d, k, DecodeOne(d, k))

-----------------------------------------------------------------------------
(* FindClosest *)

\* lower is 0 when no key is at or below searchKey; higher is assigned only by
\* a key above searchKey, and returning it unassigned raises UnboundLocalError
FindClosest(dictionary, searchKey) ==
    LET below == {key \in DOMAIN dictionary : searchKey - key >= 0}
        above == {key \in DOMAIN dictionary : ~(searchKey - key >= 0)}
        last(S) == CHOOSE x \in S : \A y \in S : y <= x
    IN  IF above = {}
        THEN [err |-> "UnboundLocalError", lower |-> 0, higher |-> 0]
        ELSE [err |-> "",
              lower |-> IF below = {} THEN 0 ELSE last(below),
              higher |-> last(above)]

-----------------------------------------------------------------------------
(* replaceWithLabel and the substitution of processDialogue *)

\* str(n), n >= 0
RECURSIVE Decimal(_)
Decimal(n) == IF n < 10 THEN <<48 + n>> ELSE Append(Decimal(n \div 10), 48 + (n % 10))

\* "data_{0:0>2}".format(chunk)
DataFile(chunk) ==
    <<100, 97, 116, 97, 95>>
        \o (IF Len(Decimal(chunk)) < 2 THEN <<48>> ELSE <<>>) \o Decimal(chunk)

\* hex(n): "0x" and the digits in lower case, "-" in front of a negative number
Hex(n) ==
    LET a  == IF n < 0 THEN 0 - n ELSE n
        dg == IF a = 0 THEN <<48>> ELSE [k \in DOMAIN HexDigits(a) |-> LowerHex(HexDigits(a)[k])]
    IN  (IF n < 0 THEN <<45>> ELSE <<>>) \o <<48, 120>> \o dg

\* "{}.l_{}".format(self.dataFiles[address], hex(0xc00000 + address))
Label(files, address) == DataFile(files[address]) \o <<46, 108, 95>> \o Hex(BankBase + address)

Zeros == <<48, 48, 32, 48, 48, 32, 48, 48, 32, 48, 48>>

\* one pointer of a repeated group (lines 488-494)
EmbedOne(files, a) ==
    IF a.err # "" THEN a
    ELSE IF a.v <= 0 THEN Ok(<<32>> \o Zeros)
    ELSE IF a.v \notin DOMAIN files THEN Raise("KeyError")
    ELSE Ok(<<32, 123, 101, 40>> \o Label(files, a.v) \o <<41, 125>>)

Texts(rs) == Concat([n \in DOMAIN rs |-> rs[n].v])

\* lines 473-482: a single pointer, whose label is text
Labelled(prefix, text) ==
    IF prefix = <<48, 65, 32>>
    THEN <<34, 32, 103, 111, 116, 111, 40>> \o text \o <<41, 32, 34>>
    ELSE IF prefix = <<48, 56, 32>>
    THEN <<34, 32, 99, 97, 108, 108, 40>> \o text \o <<41, 32, 34>>
    ELSE <<91>> \o prefix \o <<123, 101, 40>> \o text \o <<41, 125, 93>>

ReplaceOne(prefix, address, files) ==
    IF address.err # "" THEN address
    ELSE IF address.v = 0 THEN Ok(<<91>> \o prefix \o Zeros \o <<93>>)
    ELSE IF address.v \notin DOMAIN files THEN Raise("KeyError")
    ELSE Ok(Labelled(prefix, Label(files, address.v)))

\* lines 484-497: a group of pointers
EmbedEach(files, as) == [n \in DOMAIN as |-> EmbedOne(files, as[n])]

ReplaceAll(m, each) ==
    IF FirstError(each) # "" THEN Raise(FirstError(each))
    ELSE Ok(<<91>> \o m.g1 \o Texts(each) \o m.g4 \o <<93>>)

replaceWithLabel(p, m, files) ==
    IF ~p.multi
    THEN ReplaceOne(m.g1, FromSNES(m.g2), files)
    ELSE ReplaceAll(m, EmbedEach(files, Addresses(p, m)))

\* re.sub(p, replaceWithLabel, s): the text between the matches kept, each
\* match replaced; the first replacement that raises ends it
Before(kept, r, rest) ==
    IF r.err # "" THEN r
    ELSE IF rest.err # "" THEN rest
    ELSE Ok(kept \o r.v \o rest.v)

RECURSIVE SubFrom(_, _, _, _, _)
SubFrom(p, s, ms, n, files) ==
    IF ms = <<>> THEN Ok(SubSeq(s, n, Len(s)))
    ELSE Before(SubSeq(s, n, Head(ms).start - 1),
                replaceWithLabel(p, Head(ms), files),
                SubFrom(p, s, Tail(ms), Head(ms).end, files))

Sub(p, s, files) == SubFrom(p, s, Matches(p, s, 1), 1, files)

\* lines 248-249: the patterns one after the other, from pattern n on
RECURSIVE SubPatterns(_, _, _)
RECURSIVE SubNext(_, _, _)
SubNext(n, r, files) == IF r.err # "" THEN r ELSE SubPatterns(n, r.v, files)

SubPatterns(n, s, files) ==
    IF n > Len(PATTERNS) THEN Ok(s)
    ELSE SubNext(n + 1, Sub(PATTERNS[n], s, files), files)

\* lines 240-249 for one block
ProcessBlock(block, files) == SubPatterns(1, <<34>> \o block \o <<34>>, files)

-----------------------------------------------------------------------------
(* The run of __main__: loadDialogue, processDialogue, outputDialogue.     *)
(* An exception nobody catches, or sys.exit, ends the run: pc = "aborted"  *)
(* and error names it.                                                     *)

NoFiles == [main |-> FALSE, data |-> {}, project |-> FALSE]

Abort(e) == pc' = "aborted" /\ error' = e

\* a variant of Advance that starts the section again after every block
AdvanceAgain(td, sec, k) ==
    [section |-> sec, i |-> IF sec <= Len(td) THEN td[sec][1] ELSE k]

\* the "for section ... while i < section[1]" header: the next offset to
\* decode, moving to the following sections while the current one is done
RECURSIVE Advance(_, _, _)
Advance(td, sec, k) ==
    IF sec > Len(td) THEN [section |-> sec, i |-> k]
    ELSE IF k < td[sec][2] THEN [section |-> sec, i |-> k]
    ELSE IF sec = Len(td) THEN [section |-> sec + 1, i |-> k]
    ELSE Advance(td, sec + 1, td[sec + 1][1])

\* lines 186-190: one turn of the while loop
Scan ==
    /\ pc = "scan"
    /\ section <= Len(textData)
    /\ \E r \in {getText(data, i, NoStop)} :
           IF r.err # ""
           THEN /\ Abort(r.err)
                /\ UNCHANGED <<dialogue, nextOffset, pointers, section, i>>
           ELSE /\ dialogue' = Put(dialogue, i, r.block)
                /\ nextOffset' = Put(nextOffset, i, r.i)
                /\ pointers' = pointers \o r.pointers
                /\ section' = Advance(textData, section, r.i).section
                /\ i' = Advance(textData, section, r.i).i
                /\ UNCHANGED <<pc, error>>
    /\ UNCHANGED <<data, header, textData, coilsnake, project, roots, dataFiles,
                   written, arg, res>>

\* lines 206-215: the pointers of the CoilSnake tables.  An entry "$c5..." is
\* kept when it is positive and no block yet; an entry in the label form
\* (the ValueError branch) is kept as it is.
ProjectPointers ==
    {e.address : e \in {e \in project : e.form = "label"
                                        \/ (e.address > 0 /\ e.address \notin DOMAIN dialogue)}}

\* lines 192-223: after the scan, the project's pointers are added, and the
\* pointers found become the sorted list of those that are no block yet
CheckPointers ==
    /\ pc = "scan"
    /\ section > Len(textData)
    /\ IF coilsnake = "missing"
       THEN /\ Abort("SystemExit")
            /\ UNCHANGED <<pointers, roots>>
       ELSE /\ roots' = sorted({q \in Range(pointers)
                                      \cup (IF coilsnake = "ok" THEN ProjectPointers ELSE {}) :
                                   q # 0 /\ q \notin DOMAIN dialogue})
            /\ pointers' = <<>>
            /\ pc' = "split"
            /\ UNCHANGED error
    /\ UNCHANGED <<data, header, textData, coilsnake, project, dialogue, nextOffset,
                   dataFiles, section, i, written, arg, res>>

\* line 227: "[0A {}]".format(ToSNES(pointer))
Jump(pointer) == <<91, 48, 65, 32>> \o ToSNES(pointer) \o <<93>>

\* lines 224-228: one turn of "for pointer in pointers"
Split ==
    /\ pc = "split"
    /\ roots # <<>>
    /\ \E pointer \in {Head(roots)} :
       \E fc \in {FindClosest(dialogue, pointer)} :
       \E low \in {getText(data, fc.lower, pointer)} :
       \E cut \in {Put(dialogue, fc.lower, low.block \o Jump(pointer))} :
       \E new \in {getText(data, pointer, NoStop)} :
           IF fc.err # "" \/ low.err # ""
           THEN /\ Abort(IF fc.err # "" THEN fc.err ELSE low.err)
                /\ UNCHANGED <<dialogue, nextOffset, pointers, roots>>
           ELSE IF new.err # ""
           THEN /\ Abort(new.err)
                /\ dialogue' = cut
                /\ nextOffset' = Put(nextOffset, fc.lower, low.i)
                /\ pointers' = pointers \o low.pointers
                /\ UNCHANGED roots
           ELSE /\ dialogue' = Put(cut, pointer, new.block)
                /\ nextOffset' = Put(Put(nextOffset, fc.lower, low.i), pointer, new.i)
                /\ pointers' = pointers \o low.pointers \o new.pointers
                /\ roots' = Tail(roots)
                /\ UNCHANGED <<pc, error>>
    /\ UNCHANGED <<data, header, textData, coilsnake, project, dataFiles, section, i,
                   written, arg, res>>

\* a variant of the assignment that divides the address, not the rank
DataFilesByAddress(blocks) == [block \in blocks |-> block \div ChunkSize]

\* lines 230-232: block number k of sorted(self.dialogue) goes to file k // 100
DataFiles(blocks) == [block \in blocks |-> Rank(blocks, block) \div ChunkSize]

Assign ==
    /\ pc = "split"
    /\ roots = <<>>
    /\ dataFiles' = DataFiles(DOMAIN dialogue)
    /\ pc' = "process"
    /\ UNCHANGED <<data, header, textData, coilsnake, project, dialogue, nextOffset,
                   pointers, roots, section, i, written, error, arg, res>>

\* processDialogue: every block rewritten, or the first exception of a
\* replacement (the blocks rewritten before it die with the run)
Processed == [block \in DOMAIN dialogue |-> ProcessBlock(dialogue[block], dataFiles)]

Process ==
    /\ pc = "process"
    /\ \E done \in {Processed} :
           IF \E block \in DOMAIN dialogue : done[block].err # ""
           THEN /\ \E block \in DOMAIN dialogue :
                      /\ done[block].err # ""
                      /\ Abort(done[block].err)
                /\ UNCHANGED dialogue
           ELSE /\ dialogue' = [block \in DOMAIN dialogue |-> done[block].v]
                /\ pc' = "output"
                /\ UNCHANGED error
    /\ UNCHANGED <<data, header, textData, coilsnake, project, nextOffset, pointers,
                   roots, dataFiles, section, i, written, arg, res>>

\* lines 271-273: the files data_00 .. data_NN that are opened, numFiles
\* being math.ceil of the integer quotient
DataFileNumbers == 0 .. (Cardinality(DOMAIN dialogue) \div ChunkSize)

\* lines 309-322: the entries outputToCoilSnakeProject looks up in dataFiles
ProjectLookups ==
    {e.address : e \in {e \in project : e.form = "label" \/ e.address >= 0}}

\* outputDialogue.  main.ccs and data_00.ccs are open and written to when the
\* first block's "ROM[...]" line adds self.header, None for a ROM that
\* __init__ did not recognise, to an integer: TypeError.  After the files,
\* the project's tables are rewritten one by one, with a KeyError for a
\* pointer that is no block, in the first table or after some are rewritten.
Output ==
    /\ pc = "output"
    /\ IF header = <<>> /\ DOMAIN dialogue # {}
       THEN /\ written' = [main |-> TRUE, data |-> {0}, project |-> FALSE]
            /\ Abort("TypeError")
       ELSE IF coilsnake = "ok" /\ ~(ProjectLookups \subseteq DOMAIN dataFiles)
       THEN /\ \E some \in BOOLEAN :
                  written' = [main |-> TRUE, data |-> DataFileNumbers, project |-> some]
            /\ Abort("KeyError")
       ELSE /\ written' = [main |-> TRUE, data |-> DataFileNumbers,
                           project |-> coilsnake = "ok"]
            /\ pc' = "done"
            /\ UNCHANGED error
    /\ UNCHANGED <<data, header, textData, coilsnake, project, dialogue, nextOffset,
                   pointers, roots, dataFiles, section, i, arg, res>>

Next == Scan \/ CheckPointers \/ Split \/ Assign \/ Process \/ Output

-----------------------------------------------------------------------------
(* The ROMs and projects the runs start from.  A ROM is two bytes that are *)
(* no text, then text made of NumFragments pieces, then an end of block.   *)
(* TEXT_DATA is scaled to it: two ranges that touch, as 0x50000-0x51b12    *)
(* and 0x51b12-0x8bc2c do, from the first piece to the end of the ROM.     *)

NumFragments == 3

FirstRange == 5

TextStart == 2

PointerTargets == {1, 3, 8}

\* [08 XX XX XX XX] and [0A XX XX XX XX] to the offset a, as ToSNES prints it
PointerTo(a) == <<a, \h00, \hC0, \h00>>

\* a character, an end of block, a call of nothing, a jump, a call of each
\* target, and a code 04 whose two operands and the three codes after them
\* read as a call of 3 from its second byte on
Fragments ==
    {<<\h71>>, <<\h02>>, <<\h08, 0, 0, 0, 0>>, <<\h0A>> \o PointerTo(3),
     <<\h04, \h08>> \o PointerTo(3)}
        \cup {<<\h08>> \o PointerTo(a) : a \in PointerTargets}

Roms == {<<\h02, \h02>> \o Concat(fs) \o <<\h02>> : fs \in [1 .. NumFragments -> Fragments]}

TextData(d) ==
    << <<TextStart, TextStart + FirstRange>>, <<TextStart + FirstRange, Len(d)>> >>

\* what __init__ leaves in self.header, and the project the run is given
Setups ==
    { [header |-> <<0>>,    coilsnake |-> "off",     project |-> {}],
      [header |-> <<>>,     coilsnake |-> "off",     project |-> {}],
      [header |-> <<-512>>, coilsnake |-> "missing", project |-> {}],
      [header |-> <<-512>>, coilsnake |-> "ok",
       project |-> {[form |-> "$", address |-> 4], [form |-> "$", address |-> 0]}],
      [header |-> <<0>>,    coilsnake |-> "ok",
       project |-> {[form |-> "$", address |-> 1], [form |-> "label", address |-> 3]}] }

Start(d, td, setup) ==
    /\ data = d
    /\ textData = td
    /\ header = setup.header
    /\ coilsnake = setup.coilsnake
    /\ project = setup.project
    /\ dialogue = EmptyMap
    /\ nextOffset = EmptyMap
    /\ pointers = <<>>
    /\ roots = <<>>
    /\ dataFiles = EmptyMap
    /\ section = Advance(td, 1, td[1][1]).section
    /\ i = Advance(td, 1, td[1][1]).i
    /\ written = NoFiles
    /\ pc = "scan"
    /\ error = ""
    /\ arg = <<>>
    /\ res = <<>>

Init == \E d \in Roms, setup \in Setups : Start(d, TextData(d), setup)

Spec == Init /\ [][Next]_vars

\* the states in which each of the three steps that decode or substitute can be
\* taken: the conditions of its loop header, every branch of its body being a
\* step that changes the state
ScanEnabled == pc = "scan" /\ section <= Len(textData)

SplitEnabled == pc = "split" /\ roots # <<>>

ProcessEnabled == pc = "process"

\* __main__ is one sequential program: while it has a next step, it takes it.
\* At most one of the six steps can be taken in a state, so this is weak
\* fairness of Next.  For Scan, Split and Process the condition is written
\* out, WF_vars(A) being []<>~ENABLED <<A>>_vars \/ []<><<A>>_vars.
SpecLive ==
    /\ Init /\ [][Next]_vars
    /\ []<>(~ScanEnabled) \/ []<><<Scan>>_vars
    /\ WF_vars(CheckPointers)
    /\ []<>(~SplitEnabled) \/ []<><<Split>>_vars
    /\ WF_vars(Assign)
    /\ []<>(~ProcessEnabled) \/ []<><<Process>>_vars
    /\ WF_vars(Output)

-----------------------------------------------------------------------------
(* Runs over more than two output files: a ROM of one block that calls its *)
(* own second byte, and then a row of blocks that are an end of block each *)

MaxBlocks == 205

ChunkRom(n) == <<\h71, \h71, \h08>> \o PointerTo(1) \o <<\h02>> \o [k \in 1 .. n |-> \h02]

ChunkRoms == {ChunkRom(n) : n \in {ChunkSize - 2, 2 * ChunkSize - 2, MaxBlocks - 2}}

ChunkTextData(d) == << <<0, 8>>, <<8, Len(d)>> >>

InitChunks == \E d \in ChunkRoms, setup \in Setups : Start(d, ChunkTextData(d), setup)

SpecChunks == InitChunks /\ [][Next]_vars

-----------------------------------------------------------------------------
(* Calls of one function.  The state holds the buffer, the argument in arg *)
(* or i, and the result in res once the call has returned.                 *)

Call(d, k, a, at) ==
    /\ data = d
    /\ textData = <<>>
    /\ header = <<0>>
    /\ coilsnake = "off"
    /\ project = {}
    /\ dialogue = EmptyMap
    /\ nextOffset = EmptyMap
    /\ pointers = <<>>
    /\ roots = <<>>
    /\ dataFiles = EmptyMap
    /\ section = 1
    /\ i = k
    /\ written = NoFiles
    /\ pc = at
    /\ error = ""
    /\ arg = a
    /\ res = <<>>

\* ToSNES(arg), and FromSNES of what it returned

MaxOffset == 40

Offsets ==
    (0 .. MaxOffset)
        \cup {\hFF, \h100, \h1234, \hFFFF, \h10000, \h51B12, \h3FFFFF, \h400000, \h400001,
              \h1234567, \hF400000, \h7F3FFFFF}

InitAddress == \E x \in Offsets : Call(<<>>, 0, x, "ToSNES")

CallToSNES ==
    /\ pc = "ToSNES"
    /\ res' = ToSNES(arg)
    /\ pc' = "FromSNES"
    /\ UNCHANGED <<data, header, textData, coilsnake, project, dialogue, nextOffset,
                   pointers, roots, dataFiles, section, i, written, error, arg>>

CallFromSNES ==
    /\ pc = "FromSNES"
    /\ res' = FromSNES(res)
    /\ pc' = "returned"
    /\ UNCHANGED <<data, header, textData, coilsnake, project, dialogue, nextOffset,
                   pointers, roots, dataFiles, section, i, written, error, arg>>

NextAddress == CallToSNES \/ CallFromSNES

SpecAddress == InitAddress /\ [][NextAddress]_vars

\* getText(i) on a buffer

Padding == 20

MaxLiterals == 3

MaxStart == 1

MaxPointers == 2

Bytes == 0 .. 255

Filler(n) == [k \in 1 .. n |-> \h02]

\* a code whose length hangs on the next byte, any next byte, and ends of block
SubByteBuffers == {<<c, sub>> \o Filler(Padding) : c \in \h18 .. \h1F, sub \in Bytes}

\* characters: "A", the quote, "0", "[", the special character, "]", the last byte
Alphabet == {\h71, \h52, \h60, \h8B, \h8C, \h8D, \hFF}

Terminators ==
    {<<\h02>>, <<\h0A, 0, 0, 0, 0>>, <<\h0A>> \o PointerTo(5), <<\h0A, \h34, \h12, \hC5, \h00>>}

\* the characters "[08 05 00 C0 00]" and "[08 GG 00 C0 00]"
Spelled ==
    { <<\h8B, \h60, \h68, \h50, \h60, \h65, \h50, \h60, \h60, \h50, \h73, \h60, \h50, \h60,
        \h60, \h8D>>,
      <<\h8B, \h60, \h68, \h50, \h77, \h77, \h50, \h60, \h60, \h50, \h73, \h60, \h50, \h60,
        \h60, \h8D>> }

LiteralRuns == UNION {[1 .. n -> Alphabet] : n \in 0 .. MaxLiterals} \cup Spelled

LiteralBuffers == {run \o t \o <<\h71>> : run \in LiteralRuns, t \in Terminators}

PointerGroups ==
    {<<0, 0, 0, 0>>, PointerTo(5), <<\h34, \h12, \hC5, \h00>>, <<0, 0, 0, 1>>, <<1, 0, 0, 0>>,
     <<\hFF, \hFF, \hFF, \h7F>>}

PointerLists == UNION {[1 .. n -> PointerGroups] : n \in 1 .. MaxPointers}

PointerListBuffers ==
    {code \o <<Len(list)>> \o Concat(list) \o <<\h02>> :
        code \in {<<\h09>>, <<\h1F, \hC0>>}, list \in PointerLists}

DecodeBuffers == SubByteBuffers \cup LiteralBuffers \cup PointerListBuffers

InitDecode ==
    \E d \in DecodeBuffers, k \in 0 .. MaxStart : Call(Filler(k) \o d, k, <<>>, "getText")

CallGetText ==
    /\ pc = "getText"
    /\ res' = getText(data, i, NoStop)
    /\ pc' = "returned"
    /\ UNCHANGED <<data, header, textData, coilsnake, project, dialogue, nextOffset,
                   pointers, roots, dataFiles, section, i, written, error, arg>>

NextDecode == CallGetText

SpecDecode == InitDecode /\ [][NextDecode]_vars

-----------------------------------------------------------------------------
(* Properties of the run: discovery, relocation, output *)

\* C1: when loadDialogue has finished, no pointer that processDialogue
\* resolves in a block lacks a label: no lookup of self.dataFiles fails with
\* a KeyError, whatever the buffer and the roots.
C1_NoDanglingPointer ==
    pc = "process" =>
        \A block \in DOMAIN dialogue :
            ProcessBlock(dialogue[block], dataFiles).err # "KeyError"

\* C2: at every moment of the scan and of the splits, the ranges of the
\* buffer [start, nextOffset) that two blocks were decoded from are disjoint.
C2_RangesDisjoint ==
    \A a, b \in DOMAIN nextOffset :
        a # b => nextOffset[a] <= b \/ nextOffset[b] <= a

\* the turn of the split loop that has just split the block at L by the
\* root p, which lies strictly inside it
C3_Split(L, p) ==
    /\ pc = "split"
    /\ roots # <<>>
    /\ p = Head(roots)
    /\ FindClosest(dialogue, p).err = ""
    /\ L = FindClosest(dialogue, p).lower
    /\ L < p
    /\ p < nextOffset[L]
    /\ pc' = "split"
    /\ roots' = Tail(roots)

\* the block without the jump that the split appended to it
C3_Unjump(block, p) == SubSeq(block, 1, Len(block) - Len(Jump(p)))

C3_Rebuilt(L, p) ==
    /\ dialogue'[L] = C3_Unjump(dialogue'[L], p) \o Jump(p)
    /\ C3_Unjump(dialogue'[L], p) \o dialogue'[p] = dialogue[L]
    /\ (nextOffset'[L] - L) + (nextOffset'[p] - p) = nextOffset[L] - L

C4_RootBeforeBlocksAborts ==
    [][(/\ pc = "split"
        /\ roots # <<>>
        /\ \A key \in DOMAIN dialogue : Head(roots) < key)
           => pc' = "aborted"]_vars

\* C10: a run that has aborted has created and written no output file
C10_NoOutputBeforeAbort == pc = "aborted" => written = NoFiles

-----------------------------------------------------------------------------
(* Properties of the assignment of the blocks to the output files *)

\* C7: once loadDialogue has finished, self.dataFiles has every block of
\* self.dialogue, the block of rank k in the order of the addresses is in
\* file k \div 100, a lower address is never in a later file, and every file
\* but the last holds exactly 100 blocks.
C7_Chunks ==
    pc \in {"process", "output", "done"} =>
        /\ DOMAIN dataFiles = DOMAIN dialogue
        /\ \A A \in DOMAIN dialogue :
               dataFiles[A] = Cardinality({B \in DOMAIN dialogue : B < A}) \div ChunkSize
        /\ \A A, B \in DOMAIN dialogue : A < B => dataFiles[A] <= dataFiles[B]
        /\ \A A \in DOMAIN dialogue :
               (\E B \in DOMAIN dialogue : dataFiles[B] > dataFiles[A])
                   => Cardinality({B \in DOMAIN dialogue : dataFiles[B] = dataFiles[A]})
                          = ChunkSize

\* the blocks fill two files and go on in a third
C7_ThreeFiles ==
    /\ pc = "process"
    /\ Cardinality(DOMAIN dialogue) > 2 * ChunkSize
    /\ \E A \in DOMAIN dialogue : dataFiles[A] = 2

-----------------------------------------------------------------------------
(* Properties of ToSNES and FromSNES *)

C6_TwoDigits(b) == <<UpperHex(b \div 16), UpperHex(b % 16)>>

\* the four bytes of n, the lowest first, as ToSNES writes them
C6_Reversed(n) ==
    Join(<< C6_TwoDigits(n % 256), C6_TwoDigits((n \div 256) % 256),
            C6_TwoDigits((n \div 65536) % 256), C6_TwoDigits(n \div 16777216) >>)

\* C6: ToSNES(x) is the four bytes of x + 0xC00000 in reversed order, and
\* "00 00 00 00" for x = 0; FromSNES of it is x again, 0 for "00 00 00 00".
C6_RoundTrip ==
    /\ pc = "FromSNES" =>
           res = IF arg = 0 THEN C6_Reversed(0) ELSE C6_Reversed(arg + BankBase)
    /\ pc = "returned" => res = Ok(arg)

\* an offset of the second range of TEXT_DATA has made the round trip
C6_Returned == pc = "returned" /\ arg = \h51B12 /\ res.v = \h51B12

-----------------------------------------------------------------------------
(* Properties of getText and getLength *)

\* the byte at offset i + n of the buffer, -1 past its end
At(n) == IF InBuffer(data, i + n) THEN Read(data, i + n) ELSE -1

Known(combos) == {combos[n][1] : n \in DOMAIN combos}

\* the next bytes a code has a length for
C5_Table(c) ==
    CASE c = \h18 -> Known(Combos18)
      [] c = \h19 -> Known(Combos19)
      [] c = \h1A -> Known(Combos1A)
      [] c = \h1B -> {\h02, \h03}
      [] c = \h1C -> Known(Combos1C)
      [] c = \h1D -> Known(Combos1D)
      [] c = \h1E -> {\h09}
      [] c = \h1F -> Known(Combos1F)

\* getText has met the code c with a next byte that c has no length for
C5_Unknown(c) ==
    /\ pc = "returned"
    /\ At(0) = c
    /\ At(1) >= 0
    /\ At(1) \notin C5_Table(c)

RECURSIVE C8_Run(_)
C8_Run(n) == IF At(n) > \h30 THEN 1 + C8_Run(n + 1) ELSE 0

\* getText has decoded characters and then a code that ends the block,
\* with its operands in the buffer
C8_Literals ==
    /\ pc = "returned"
    /\ At(C8_Run(0)) \in {\h02, \h0A}
    /\ At(C8_Run(0) + CONTROL_CODES[At(C8_Run(0))]) >= 0

C8_End == i + C8_Run(0) + 1 + CONTROL_CODES[At(C8_Run(0))]

\* C8 (as the code has it): N characters, none of them 0x8B ("["), and
\* then 02 or 0A with its operands make one block that ends at
\* start + N + 1 + the length of the operands, with no pointer after 02 and
\* with the one pointer of the operands after 0A.
C8_LiteralBlock ==
    C8_Literals /\ (\A n \in 0 .. C8_Run(0) - 1 : At(n) # \h8B) =>
        /\ res.err = ""
        /\ res.i = C8_End
        /\ Len(res.pointers) = IF At(C8_Run(0)) = \h02 THEN 0 ELSE 1

\* C8 (as stated): characters and then a code that ends the block make one
\* block with no pointer that ends at start + N + 1 + the length of the operands
C8_LiteralBlockNoPointer ==
    C8_Literals => res.err = "" /\ res.i = C8_End /\ res.pointers = <<>>

\* a block of MaxLiterals characters and 02 was decoded from the start MaxStart
C8_Decoded ==
    /\ C8_Literals
    /\ i = MaxStart
    /\ C8_Run(0) = MaxLiterals
    /\ At(MaxLiterals) = \h02
    /\ res.err = ""
    /\ res.pointers = <<>>
    /\ res.i = MaxStart + MaxLiterals + 1

\* the address in the four bytes from offset i + n on: 0 when they are all
\* 0, or else the number they make, the last byte the highest, minus 0xC00000
C9_Address(n) ==
    IF At(n) = 0 /\ At(n + 1) = 0 /\ At(n + 2) = 0 /\ At(n + 3) = 0
    THEN 0
    ELSE At(n) + 256 * At(n + 1) + 65536 * At(n + 2) + 16777216 * At(n + 3) - BankBase

\* getText has decoded a list of pointers whose count is the byte at
\* offset i + h, with an end of block after the list
C9_List(h) ==
    /\ pc = "returned"
    /\ IF h = 1 THEN At(0) = \h09 ELSE At(0) = \h1F /\ At(1) = \hC0
    /\ At(h) >= 1
    /\ At(h + 1 + 4 * At(h)) = \h02

\* C9: for 09 n and for 1F C0 n with n >= 1, getText takes 1 + 4n and
\* 2 + 4n bytes of operands and reports n pointers, the j-th the address in
\* the j-th four bytes.
C9_PointerList ==
    \A h \in {1, 2} :
        C9_List(h) =>
            /\ res.err = ""
            /\ res.i = i + 1 + (h + 4 * At(h)) + 1
            /\ res.pointers = [j \in 1 .. At(h) |-> C9_Address(h + 1 + 4 * (j - 1))]

\* a list of two different pointers after 09 was decoded
C9_TwoPointers ==
    /\ C9_List(1)
    /\ At(1) = 2
    /\ Len(res.pointers) = 2
    /\ res.pointers[1] # res.pointers[2]
    /\ res.pointers[1] > 0

-----------------------------------------------------------------------------
(* Properties of the pointers found during the splits *)

\* the address q lies strictly inside a block found so far
C11_Inside(q) == \E L \in DOMAIN nextOffset : L < q /\ q < nextOffset[L]

\* C11: when loadDialogue has finished, every pointer that getText reported
\* during the splits and that lies strictly inside a block is the start of
\* a block: the block it lies in was split at it.
C11_SplitPointersAreBlocks ==
    pc = "process" =>
        \A n \in DOMAIN pointers :
            pointers[n] # 0 /\ C11_Inside(pointers[n]) => pointers[n] \in DOMAIN dialogue

-----------------------------------------------------------------------------
(* Termination of loadDialogue *)

\* loadDialogue has returned or the run has ended
C12_Discovered == pc \in {"process", "output", "done", "aborted"}

\* C12: loadDialogue comes to an end, with its blocks or with an abort,
\* because every block decoded ends after the offset it starts at, every
\* turn of the scan moves on in its range or to a later range, and every
\* turn of the split loop takes its root off the list.
C12_DiscoveryTerminates ==
    /\ <>C12_Discovered
    /\ [](\A block \in DOMAIN nextOffset : nextOffset[block] > block)
    /\ [][pc = "scan" /\ pc' = "scan"
              => section' > section \/ (section' = section /\ i' > i)]_vars
    /\ [][pc = "split" /\ pc' = "split"
              => roots # <<>> /\ roots' = Tail(roots)]_vars

\* loadDialogue has returned after the scan of both ranges and a split
C12_Returned ==
    /\ pc = "process"
    /\ section > Len(textData)
    /\ roots = <<>>
    /\ \E L, p \in DOMAIN dialogue :
           /\ L < p
           /\ Len(dialogue[L]) >= Len(Jump(p))
           /\ SubSeq(dialogue[L], Len(dialogue[L]) - Len(Jump(p)) + 1, Len(dialogue[L])) = Jump(p)
           /\ p \notin {textData[n][1] : n \in DOMAIN textData}

=============================================================================
